---- MODULE Spec2Model ----
(***************************************************************************)
(* A model of the webhook receiver of src/app.py: the three request        *)
(* handlers handle_webhook, show_events and health_check, run by a pool of *)
(* workers against one shared events collection.                           *)
(*                                                                         *)
(* JSON values are modelled by their shape.  A leaf is a string: Absent    *)
(* (the key is not in the object), Null (JSON null, Python None) or a      *)
(* token standing for a text or a number.  An object slot is a record with *)
(* a tag t: "absent" (no such key), "null", "nondict" (a string, number or *)
(* array where an object is expected) or "dict".                           *)
(***************************************************************************)
EXTENDS Integers, Sequences, FiniteSets, TLC

VARIABLES secret, store, nextId, clock, procs

vars == <<secret, store, nextId, clock, procs>>

(***************************************************************************)
(* Bounds of the model.                                                    *)
(***************************************************************************)
\* the collection accepts this many documents, then every write fails
MaxStore == 2
\* the clock (datetime.utcnow(), in the milliseconds the store keeps) stops here
MaxClock == 1

\* the workers that handle requests concurrently
Workers == {"w1", "w2"}
\* the one worker of the sequential specifications
OneWorker == {"w1"}

(***************************************************************************)
(* Leaves and object slots.                                                *)
(***************************************************************************)
Absent == "<absent>"
Null == "<null>"
\* the value a failed attribute lookup stands for: AttributeError was raised
Raised == "<raised>"

D1(tag, leaf) == [t |-> tag, v |-> leaf]
NoD1 == D1("absent", Absent)
Dict1(leaf) == D1("dict", leaf)

HeadCommit(tag, id, message) == [t |-> tag, id |-> id, message |-> message]
NoHeadCommit == HeadCommit("absent", Absent, Absent)

PullReq(tag, user, head, base, number, state) ==
    [t |-> tag, user |-> user, head |-> head, base |-> base,
     number |-> number, state |-> state]
NoPullReq == PullReq("absent", NoD1, NoD1, NoD1, Absent, Absent)

\* a ref: "absent", "null" or "str" with the text as tokens, "/" its separator
RefStr(toks) == [t |-> "str", s |-> toks]
NoRef == [t |-> "absent", s |-> <<>>]
NullRef == [t |-> "null", s |-> <<>>]

\* a parsed JSON document: t is "dict", "falsy" ({}, [], null, 0, "") or
\* "nondict" (a non-empty array, a string, a number)
NoFields ==
    [t |-> "dict", repository |-> NoD1, commits |-> FALSE, pusher |-> NoD1,
     ref |-> NoRef, head_commit |-> NoHeadCommit, pull_request |-> NoPullReq,
     action |-> Absent]
FalsyDoc == [NoFields EXCEPT !.t = "falsy"]
ArrayDoc == [NoFields EXCEPT !.t = "nondict"]

\* the push of scenario A and the pull request of scenario B
PushA ==
    [NoFields EXCEPT !.repository = Dict1("repo"), !.commits = TRUE,
                     !.pusher = Dict1("alice"),
                     !.ref = RefStr(<<"refs", "/", "heads", "/", "main">>),
                     !.head_commit = HeadCommit("dict", "abc123", "msg")]
PullB ==
    [NoFields EXCEPT !.repository = Dict1("repo"), !.action = "opened",
                     !.pull_request =
                         PullReq("dict", Dict1("bob"), Dict1("feature-x"),
                                 Dict1("main"), "42", "open")]

(***************************************************************************)
(* Text helpers.                                                           *)
(***************************************************************************)
\* str.split(sep): the segments of a token sequence between the separators
RECURSIVE Split(_, _)
Split(s, sep) ==
    IF \A i \in 1..Len(s) : s[i] # sep
    THEN <<s>>
    ELSE LET i == CHOOSE k \in 1..Len(s) :
                      s[k] = sep /\ \A j \in 1..(k - 1) : s[j] # sep
         IN  <<SubSeq(s, 1, i - 1)>> \o Split(SubSeq(s, i + 1, Len(s)), sep)

\* the text of one segment (a segment of the model holds at most one token)
SegText(seg) == IF seg = <<>> THEN "" ELSE seg[1]

\* ref.split("/")[-1]
LastSegment(toks) ==
    LET parts == Split(toks, "/") IN SegText(parts[Len(parts)])

\* d.get(slot, {}).get(key, default): the default for a missing slot or key,
\* AttributeError when the slot holds something that is not an object
GetOr(slot, leaf, default) ==
    CASE slot.t = "absent" -> default
      [] slot.t = "dict" -> IF leaf = Absent THEN default ELSE leaf
      [] OTHER -> Raised

\* d.get(slot, {}).get(key): None for a missing slot or key
GetNone(slot, leaf) == GetOr(slot, leaf, Null)

\* d.get(key): None for a missing key
LeafNone(leaf) == IF leaf = Absent THEN Null ELSE leaf

(***************************************************************************)
(* Signature verification (handle_webhook, the secret gate).               *)
(***************************************************************************)
\* GITHUB_WEBHOOK_SECRET unset or empty: `if webhook_secret:` is false
NoSecret == ""
TheSecret == "s3cr3t"
OtherSecret == "guess"

\* header tokens: a literal piece of text, or the hex digest of a body under a key
Lit(text) == <<"lit", text, "">>
EqTok == Lit("=")
NonAsciiTok == Lit("e-acute")

\* hmac.new(key, body, sha256).hexdigest(): one digest per key and body
HmacHex(key, raw) == <<"hex", key, raw>>

\* request.headers.get('X-Hub-Signature-256', ''): the empty text when missing
HeaderValue(hdr) == IF hdr.present THEN hdr.toks ELSE <<>>

NoHeader == [present |-> FALSE, toks |-> <<>>]
Header(toks) == [present |-> TRUE, toks |-> toks]
SignedHeader(key, raw) == Header(<<Lit("sha256"), EqTok, HmacHex(key, raw)>>)

\* hmac.compare_digest on two str: TypeError unless both are ASCII
IsAscii(text) == \A i \in 1..Len(text) : text[i] # NonAsciiTok

\* hmac.compare_digest: equality of the two texts
CompareDigest(a, b) == a = b

\* lines 63-74: "ok", "forbidden", or the exception raised
VerifySignature(webhook_secret, hdr, raw) ==
    IF webhook_secret = NoSecret
    THEN "ok"
    ELSE LET parts == Split(HeaderValue(hdr), EqTok)
         IN  IF Len(parts) < 2
             THEN "IndexError"
             ELSE LET signature == parts[2]
                      computed_signature == <<HmacHex(webhook_secret, raw)>>
                  IN  IF ~IsAscii(signature)
                      THEN "TypeError"
                      ELSE IF CompareDigest(signature, computed_signature)
                           THEN "ok"
                           ELSE "forbidden"

(***************************************************************************)
(* Parsing and normalisation (handle_webhook, lines 76-110).               *)
(***************************************************************************)
\* request.get_json(): the document; BadRequest for a JSON body that does not
\* parse; for a body not declared as JSON, None or UnsupportedMediaType
\* depending on the Flask release in use
GetJsonOutcomes(body) ==
    IF ~body.json_ctype
    THEN {"none", "HTTPException"}
    ELSE IF body.text = "json" THEN {"doc"} ELSE {"HTTPException"}

OidOf(n) == <<"oid", n>>
\* str(ObjectId)
StrId(oid) == <<"str", oid[2]>>
NoId == <<"none", 0>>

NoEvent ==
    [_id |-> NoId, timestamp |-> -1, received_at |-> -1, repository |-> Absent,
     type |-> Absent, author |-> Absent, branch |-> Absent, commit_id |-> Absent,
     commit_message |-> Absent, action |-> Absent, from_branch |-> Absent,
     to_branch |-> Absent, pr_number |-> Absent, pr_state |-> Absent]

\* lines 82-86
BaseEvent(data, now) ==
    [NoEvent EXCEPT !.timestamp = now,
                    !.repository = GetOr(data.repository, data.repository.v, "unknown"),
                    !.received_at = now]

\* data.get("ref", "").split("/")[-1]
BranchOf(ref) ==
    CASE ref.t = "absent" -> LastSegment(<<>>)
      [] ref.t = "str" -> LastSegment(ref.s)
      [] OTHER -> Raised

\* lines 90-96
PushEvent(data, base) ==
    [base EXCEPT !.type = "push",
                 !.author = GetOr(data.pusher, data.pusher.v, "unknown"),
                 !.branch = BranchOf(data.ref),
                 !.commit_id = GetNone(data.head_commit, data.head_commit.id),
                 !.commit_message = GetNone(data.head_commit, data.head_commit.message)]

\* lines 98-107; pr.get raises when pull_request holds no object
PullRequestEvent(data, base) ==
    LET pr == data.pull_request
        isObj == pr.t = "dict"
    IN  [base EXCEPT !.type = "pull_request",
                     !.author = IF isObj THEN GetNone(pr.user, pr.user.v) ELSE Raised,
                     !.action = LeafNone(data.action),
                     !.from_branch = IF isObj THEN GetNone(pr.head, pr.head.v) ELSE Raised,
                     !.to_branch = IF isObj THEN GetNone(pr.base, pr.base.v) ELSE Raised,
                     !.pr_number = IF isObj THEN LeafNone(pr.number) ELSE Raised,
                     !.pr_state = IF isObj THEN LeafNone(pr.state) ELSE Raised]

EventFields ==
    {"repository", "type", "author", "branch", "commit_id", "commit_message",
     "action", "from_branch", "to_branch", "pr_number", "pr_state"}

HasRaised(event) == \E f \in EventFields : event[f] = Raised

\* "commits" in data, then "pull_request" in data (lines 89, 97, 108)
Classify(data) ==
    IF data.commits THEN "push"
    ELSE IF data.pull_request.t # "absent" THEN "pull_request"
    ELSE "unsupported"

\* lines 82-110 on a truthy document: the event to insert, "unsupported", or
\* AttributeError (data, or a slot read through .get, is not an object)
Normalize(data, now) ==
    IF data.t # "dict"
    THEN [out |-> "AttributeError", event |-> NoEvent]
    ELSE LET base == BaseEvent(data, now)
             class == Classify(data)
             event == CASE class = "push" -> PushEvent(data, base)
                        [] class = "pull_request" -> PullRequestEvent(data, base)
                        [] OTHER -> base
         IN  IF HasRaised(event)
             THEN [out |-> "AttributeError", event |-> NoEvent]
             ELSE IF class = "unsupported"
                  THEN [out |-> "unsupported", event |-> NoEvent]
                  ELSE [out |-> "event", event |-> event]

(***************************************************************************)
(* Requests, responses and the workers' state.                             *)
(***************************************************************************)
Body(raw, ctype, text, doc) ==
    [raw |-> raw, json_ctype |-> ctype, text |-> text, doc |-> doc]
JsonBody(raw, doc) == Body(raw, TRUE, "json", doc)
NoBody == Body("", FALSE, "empty", FalsyDoc)

Request(hdr, body) == [hdr |-> hdr, body |-> body]
NoRequest == Request(NoHeader, NoBody)

\* a query argument: missing, an integer literal, or text int() rejects
NoArg == [t |-> "absent", n |-> 0]
IntArg(n) == [t |-> "int", n |-> n]
BadArg == [t |-> "bad", n |-> 0]

Resp(status, error, event_id) ==
    [status |-> status, error |-> error, event_id |-> event_id]
NoResp == Resp(0, "", NoId)

Idle ==
    [pc |-> "idle", kind |-> "none", req |-> NoRequest, event |-> NoEvent,
     resp |-> NoResp, exc |-> "", ins |-> 0, limArg |-> NoArg, pageArg |-> NoArg,
     limit |-> 0, page |-> 0, skip |-> 0, total |-> 0, snap |-> 0,
     result |-> <<>>, total_pages |-> 0, closed |-> FALSE]

\* the handler of worker p has returned resp (exc: the exception it caught)
Done(pr, resp, exc) == [pr EXCEPT !.pc = "done", !.resp = resp, !.exc = exc]

TypeOK ==
    /\ secret \in {NoSecret, TheSecret}
    /\ nextId \in 1..(MaxStore + 2)
    /\ clock \in 0..MaxClock
    /\ Len(store) <= MaxStore
    /\ \A p \in Workers : procs[p].pc \in {"idle", "insert", "find", "done"}

Init ==
    /\ secret \in {NoSecret, TheSecret}
    /\ store = <<>>
    /\ nextId = 1
    /\ clock = 0
    /\ procs = [p \in Workers |-> Idle]

(***************************************************************************)
(* POST /webhook.                                                          *)
(***************************************************************************)
\* lines 61-110: the gate, the parse and the normalisation, up to the insert
WebhookBegin(p, r) ==
    /\ procs[p].pc = "idle"
    /\ LET me == [Idle EXCEPT !.kind = "webhook", !.req = r]
           gate == VerifySignature(secret, r.hdr, r.body.raw)
       IN  \E parsed \in GetJsonOutcomes(r.body) :
             LET norm == Normalize(r.body.doc, clock)
                 after ==
                   CASE gate = "forbidden" ->
                          Done(me, Resp(403, "Invalid signature", NoId), "")
                     [] gate \in {"IndexError", "TypeError"} ->
                          Done(me, Resp(500, "Processing failed", NoId), gate)
                     [] gate = "ok" /\ parsed = "HTTPException" ->
                          Done(me, Resp(500, "Processing failed", NoId), parsed)
                     [] gate = "ok" /\ (parsed = "none" \/ r.body.doc.t = "falsy") ->
                          Done(me, Resp(400, "Invalid payload", NoId), "")
                     [] gate = "ok" /\ norm.out = "AttributeError" ->
                          Done(me, Resp(500, "Processing failed", NoId), norm.out)
                     [] gate = "ok" /\ norm.out = "unsupported" ->
                          Done(me, Resp(400, "Unsupported event", NoId), "")
                     [] OTHER ->
                          [me EXCEPT !.pc = "insert", !.event = norm.event]
             IN  procs' = [procs EXCEPT ![p] = after]
    /\ UNCHANGED <<secret, store, nextId, clock>>

\* db.events.insert_one(event): the document gets its _id and is appended
InsertOne(coll, event, id) == Append(coll, [event EXCEPT !._id = OidOf(id)])

\* lines 113-119: the insert succeeds and the handler answers 200
WebhookInsertOk(p) ==
    /\ procs[p].pc = "insert"
    /\ Len(store) < MaxStore
    /\ store' = InsertOne(store, procs[p].event, nextId)
    /\ nextId' = nextId + 1
    /\ procs' = [procs EXCEPT ![p] =
                   Done([@ EXCEPT !.event = store'[Len(store')], !.ins = @ + 1],
                        Resp(200, "", StrId(OidOf(nextId))), "")]
    /\ UNCHANGED <<secret, clock>>

\* lines 113, 121-123: the store is unavailable, insert_one raises
WebhookInsertFail(p) ==
    /\ procs[p].pc = "insert"
    /\ procs' = [procs EXCEPT ![p] =
                   Done(@, Resp(500, "Processing failed", NoId), "StoreUnavailable")]
    /\ UNCHANGED <<secret, store, nextId, clock>>

\* datetime.utcnow() moves on
Tick ==
    /\ clock < MaxClock
    /\ clock' = clock + 1
    /\ UNCHANGED <<secret, store, nextId, procs>>

\* the client goes away while its request is being handled; the handler goes on
ConnectionDropped(p) ==
    /\ procs[p].pc \in {"insert", "find"}
    /\ ~procs[p].closed
    /\ procs' = [procs EXCEPT ![p].closed = TRUE]
    /\ UNCHANGED <<secret, store, nextId, clock>>

\* a handler that undoes its insert when it finds the client gone
RespondRollback(p) ==
    /\ procs[p].pc = "done"
    /\ store' = IF procs[p].closed /\ procs[p].ins = 1
                THEN SubSeq(store, 1, Len(store) - 1)
                ELSE store
    /\ procs' = [procs EXCEPT ![p] = Idle]
    /\ UNCHANGED <<secret, nextId, clock>>

\* the response is sent (or lost, on a closed connection); the worker is free
Respond(p) ==
    /\ procs[p].pc = "done"
    /\ procs' = [procs EXCEPT ![p] = Idle]
    /\ UNCHANGED <<secret, store, nextId, clock>>

(***************************************************************************)
(* GET /events.                                                            *)
(***************************************************************************)
DefaultLimit == 50
LimitCap == 100
DefaultPage == 1

Min(a, b) == IF a < b THEN a ELSE b
Max(a, b) == IF a > b THEN a ELSE b
Abs(a) == IF a < 0 THEN -a ELSE a

\* Python's a // b for a >= 0 and b # 0: the floor of the quotient
FloorDiv(a, b) == IF b > 0 THEN a \div b ELSE -((a + (-b) - 1) \div (-b))

\* int(request.args.get(name, default)): the number, or ValueError
ParseInt(arg, default) ==
    CASE arg.t = "absent" -> [ok |-> TRUE, n |-> default]
      [] arg.t = "int" -> [ok |-> TRUE, n |-> arg.n]
      [] OTHER -> [ok |-> FALSE, n |-> 0]

\* line 129
EffectiveLimit(n) == Min(n, LimitCap)
\* line 130
EffectivePage(n) == Max(n, 1)
\* line 132
SkipOf(page, limit) == (page - 1) * limit
\* line 150
TotalPages(total_events, limit) == FloorDiv(total_events, limit) + 1

\* find().sort("timestamp", DESCENDING): the documents by descending timestamp;
\* the store returns documents of equal timestamp in any order
SortedOrders(coll) ==
    LET n == Len(coll)
        perms == {o \in [1..n -> 1..n] : \A i, j \in 1..n : i # j => o[i] # o[j]}
        desc(o) == \A i, j \in 1..n :
                      i < j => coll[o[i]].timestamp >= coll[o[j]].timestamp
    IN  {[i \in 1..n |-> coll[o[i]]] : o \in {q \in perms : desc(q)}}

\* cursor.skip(skip).limit(limit): limit 0 is no limit, a negative limit its
\* absolute value
Slice(docs, skip, limit) ==
    LET last == IF limit = 0 THEN Len(docs) ELSE Min(Len(docs), skip + Abs(limit))
    IN  SubSeq(docs, skip + 1, last)

\* lines 141-144: each _id becomes its string
Stringified(docs) ==
    [i \in 1..Len(docs) |-> [docs[i] EXCEPT !._id = StrId(docs[i]._id)]]

RetrieveFailed == Resp(500, "Failed to retrieve events", NoId)

\* lines 128-133: the arguments, then count_documents({})
EventsBegin(p, la, pa) ==
    /\ procs[p].pc = "idle"
    /\ LET me == [Idle EXCEPT !.kind = "events", !.limArg = la, !.pageArg = pa]
           lim == ParseInt(la, DefaultLimit)
           pg == ParseInt(pa, DefaultPage)
           limit == EffectiveLimit(lim.n)
           page == EffectivePage(pg.n)
       IN  procs' = [procs EXCEPT ![p] =
                       IF ~lim.ok \/ ~pg.ok
                       THEN Done(me, RetrieveFailed, "ValueError")
                       ELSE [me EXCEPT !.pc = "find", !.limit = limit,
                                       !.page = page,
                                       !.skip = SkipOf(page, limit),
                                       !.total = Len(store)]]
    /\ UNCHANGED <<secret, store, nextId, clock>>

\* lines 135-151: the query, the stringified ids and the page count
EventsFind(p) ==
    /\ procs[p].pc = "find"
    /\ LET me == procs[p] IN
       \E docs \in SortedOrders(store) :
          procs' = [procs EXCEPT ![p] =
                      IF me.skip < 0
                      THEN Done(me, RetrieveFailed, "ValueError")
                      ELSE IF me.limit = 0
                      THEN Done(me, RetrieveFailed, "ZeroDivisionError")
                      ELSE Done([me EXCEPT
                                   !.snap = Len(store),
                                   !.result = Stringified(Slice(docs, me.skip, me.limit)),
                                   !.total_pages = TotalPages(me.total, me.limit)],
                                Resp(200, "", NoId), "")]
    /\ UNCHANGED <<secret, store, nextId, clock>>

\* lines 133-138, 152-154: the store is unavailable, count_documents or the
\* query raises
EventsStoreFail(p) ==
    /\ procs[p].pc = "find"
    /\ procs' = [procs EXCEPT ![p] = Done(@, RetrieveFailed, "StoreUnavailable")]
    /\ UNCHANGED <<secret, store, nextId, clock>>

(***************************************************************************)
(* GET /health.                                                            *)
(***************************************************************************)
\* lines 159-171: ping, then the count of events
HealthOk(p) ==
    /\ procs[p].pc = "idle"
    /\ procs' = [procs EXCEPT ![p] =
                   Done([Idle EXCEPT !.kind = "health", !.total = Len(store)],
                        Resp(200, "", NoId), "")]
    /\ UNCHANGED <<secret, store, nextId, clock>>

\* lines 172-177
HealthFail(p) ==
    /\ procs[p].pc = "idle"
    /\ procs' = [procs EXCEPT ![p] =
                   Done([Idle EXCEPT !.kind = "health"],
                        Resp(500, "unhealthy", NoId), "StoreUnavailable")]
    /\ UNCHANGED <<secret, store, nextId, clock>>

(***************************************************************************)
(* The requests the specifications send.                                   *)
(***************************************************************************)
PushBody == JsonBody("push-a", PushA)
JunkBody == Body("junk", TRUE, "garbage", FalsyDoc)
OtherBody == JsonBody("other", [NoFields EXCEPT !.repository = Dict1("repo")])

Signed(body) == Request(SignedHeader(TheSecret, body.raw), body)
Forged(body) == Request(SignedHeader(OtherSecret, body.raw), body)

\* the concurrent specification: one request of each answer
FewRequests ==
    {Signed(PushBody), Signed(JunkBody), Signed(OtherBody), Forged(PushBody)}
FewArgs == {<<NoArg, NoArg>>, <<IntArg(1), IntArg(2)>>}

(***************************************************************************)
(* Spec: the workers handle requests of all three kinds concurrently.      *)
(***************************************************************************)
Next ==
    \/ \E p \in Workers, r \in FewRequests : WebhookBegin(p, r)
    \/ \E p \in Workers : WebhookInsertOk(p)
    \/ \E p \in Workers : WebhookInsertFail(p)
    \/ \E p \in Workers, a \in FewArgs : EventsBegin(p, a[1], a[2])
    \/ \E p \in Workers : EventsFind(p)
    \/ \E p \in Workers : EventsStoreFail(p)
    \/ \E p \in Workers : HealthOk(p)
    \/ \E p \in Workers : HealthFail(p)
    \/ \E p \in Workers : ConnectionDropped(p)
    \/ \E p \in Workers : Respond(p)
    \/ Tick

Spec == Init /\ [][Next]_vars

(***************************************************************************)
(* SpecIngest: one worker, webhook requests of every shape.                *)
(***************************************************************************)
NullSlot == D1("null", Absent)
TextSlot == D1("nondict", Absent)
EmptyPull == PullReq("dict", NoD1, NoD1, NoD1, Absent, Absent)

PushDocs ==
    {<<"push-a", PushA>>,
     <<"push-min", [NoFields EXCEPT !.commits = TRUE]>>,
     <<"push-repo-null", [PushA EXCEPT !.repository = NullSlot]>>,
     <<"push-repo-text", [PushA EXCEPT !.repository = TextSlot]>>,
     <<"push-repo-noname", [PushA EXCEPT !.repository = Dict1(Absent)]>>,
     <<"push-repo-nullname", [PushA EXCEPT !.repository = Dict1(Null)]>>,
     <<"push-pusher-absent", [PushA EXCEPT !.pusher = NoD1]>>,
     <<"push-pusher-null", [PushA EXCEPT !.pusher = NullSlot]>>,
     <<"push-ref-absent", [PushA EXCEPT !.ref = NoRef]>>,
     <<"push-ref-null", [PushA EXCEPT !.ref = NullRef]>>,
     <<"push-ref-empty", [PushA EXCEPT !.ref = RefStr(<<>>)]>>,
     <<"push-ref-plain", [PushA EXCEPT !.ref = RefStr(<<"main">>)]>>,
     <<"push-ref-slash", [PushA EXCEPT !.ref = RefStr(<<"refs", "/">>)]>>,
     <<"push-head-null", [PushA EXCEPT !.head_commit = HeadCommit("null", Absent, Absent)]>>,
     <<"push-head-noid", [PushA EXCEPT !.head_commit = HeadCommit("dict", Absent, "msg")]>>,
     <<"push-and-pull", [PushA EXCEPT !.pull_request = PullB.pull_request]>>}

PullDocs ==
    {<<"pull-b", PullB>>,
     <<"pull-null", [PullB EXCEPT !.pull_request = [EmptyPull EXCEPT !.t = "null"]]>>,
     <<"pull-text", [PullB EXCEPT !.pull_request = [EmptyPull EXCEPT !.t = "nondict"]]>>,
     <<"pull-empty", [PullB EXCEPT !.pull_request = EmptyPull]>>,
     <<"pull-nouser", [PullB EXCEPT !.pull_request.user = NoD1]>>,
     <<"pull-user-null", [PullB EXCEPT !.pull_request.user = NullSlot]>>,
     <<"pull-nohead", [PullB EXCEPT !.pull_request.head = Dict1(Absent)]>>,
     <<"pull-nonumber", [PullB EXCEPT !.pull_request.number = Absent]>>,
     <<"pull-noaction", [PullB EXCEPT !.action = Absent]>>}

OtherDocs ==
    {<<"other", OtherBody.doc>>,
     <<"ping", NoFields>>,
     <<"other-repo-text", [NoFields EXCEPT !.repository = TextSlot]>>,
     <<"array", ArrayDoc>>,
     <<"empty-object", FalsyDoc>>}

IngestBodies ==
    {JsonBody(d[1], d[2]) : d \in PushDocs \cup PullDocs \cup OtherDocs}
      \cup {JunkBody,
            Body("", TRUE, "empty", FalsyDoc),
            Body("", FALSE, "empty", FalsyDoc),
            Body("push-a", FALSE, "json", PushA)}

\* the signature headers tried on a body, beside the right one
OddHeaders(raw) ==
    {NoHeader,
     Header(<<>>),
     Header(<<Lit("sha256")>>),
     SignedHeader(OtherSecret, raw),
     SignedHeader(TheSecret, "tampered"),
     Header(<<Lit("sha256"), EqTok, NonAsciiTok>>),
     Header(<<Lit("md5"), EqTok, HmacHex(TheSecret, raw)>>)}

IngestRequests ==
    {Signed(b) : b \in IngestBodies}
      \cup {Request(h, b) : h \in OddHeaders(PushBody.raw), b \in {PushBody}}
      \cup {Request(h, b) : h \in OddHeaders(JunkBody.raw), b \in {JunkBody}}

NextIngest ==
    \/ \E p \in OneWorker, r \in IngestRequests : WebhookBegin(p, r)
    \/ \E p \in OneWorker : WebhookInsertOk(p)
    \/ \E p \in OneWorker : WebhookInsertFail(p)
    \/ \E p \in OneWorker : Respond(p)
    \/ Tick

SpecIngest == Init /\ [][NextIngest]_vars

(***************************************************************************)
(* SpecEvents: one worker, pushes and GET /events with every argument.     *)
(***************************************************************************)
LimitArgs == {NoArg, BadArg, IntArg(-1), IntArg(0), IntArg(1), IntArg(2), IntArg(101)}
PageArgs == {NoArg, BadArg, IntArg(-3), IntArg(0), IntArg(1), IntArg(2)}

NextEvents ==
    \/ \E p \in OneWorker : WebhookBegin(p, Signed(PushBody))
    \/ \E p \in OneWorker : WebhookInsertOk(p)
    \/ \E p \in OneWorker : WebhookInsertFail(p)
    \/ \E p \in OneWorker, la \in LimitArgs, pa \in PageArgs : EventsBegin(p, la, pa)
    \/ \E p \in OneWorker : EventsFind(p)
    \/ \E p \in OneWorker : EventsStoreFail(p)
    \/ \E p \in OneWorker : Respond(p)
    \/ Tick

SpecEvents == Init /\ [][NextEvents]_vars

(***************************************************************************)
(* Properties.                                                             *)
(***************************************************************************)
\* worker p holds the answer of a handled request of this kind
Answered(p, kind) == procs[p].kind = kind /\ procs[p].pc = "done"

Forbidden == Resp(403, "Invalid signature", NoId)
InvalidPayload == Resp(400, "Invalid payload", NoId)
UnsupportedEvent == Resp(400, "Unsupported event", NoId)

\* the signature a header carries: the text after its first "="
CarriesSignature(hdr) == Len(Split(HeaderValue(hdr), EqTok)) >= 2
SignatureOf(hdr) == Split(HeaderValue(hdr), EqTok)[2]

\* a header of the form sha256=<hex>
WellFormed(hdr) ==
    /\ hdr.present
    /\ Len(hdr.toks) = 3
    /\ hdr.toks[1] = Lit("sha256")
    /\ hdr.toks[2] = EqTok
    /\ hdr.toks[3][1] = "hex"

PassedGate(p) ==
    VerifySignature(secret, procs[p].req.hdr, procs[p].req.body.raw) = "ok"

Populated(leaf) == leaf \notin {Absent, Null, Raised}
NonEmpty(leaf) == Populated(leaf) /\ leaf # ""

\* C1: with a secret configured, a request whose header carries a signature
\* that differs from the HMAC-SHA256 digest of the body is answered 403
\* "Invalid signature" and stores nothing.
C1_MismatchIsForbidden ==
    \A p \in OneWorker :
      (/\ Answered(p, "webhook")
       /\ secret # NoSecret
       /\ CarriesSignature(procs[p].req.hdr)
       /\ SignatureOf(procs[p].req.hdr) # <<HmacHex(secret, procs[p].req.body.raw)>>)
      => procs[p].resp = Forbidden /\ procs[p].ins = 0

\* C1, the case that works: a forged digest is answered 403
C1_ForgedRejected ==
    \E p \in OneWorker :
      /\ Answered(p, "webhook")
      /\ procs[p].req = Forged(PushBody)
      /\ procs[p].resp = Forbidden

\* C2: with a secret configured, a request whose signature header is missing
\* or not of the form sha256=<hex> is answered 403 "Invalid signature" and
\* stores nothing.
C2_MalformedIsForbidden ==
    \A p \in OneWorker :
      (/\ Answered(p, "webhook")
       /\ secret # NoSecret
       /\ ~WellFormed(procs[p].req.hdr))
      => procs[p].resp = Forbidden /\ procs[p].ins = 0

\* C2: a request without the header has been answered under a secret
C2_MissingHeaderAnswered ==
    \E p \in OneWorker :
      /\ Answered(p, "webhook")
      /\ secret # NoSecret
      /\ procs[p].req.hdr = NoHeader

\* the request of p passed the gate and its body parsed to a non-empty payload
HasPayload(p) ==
    /\ Answered(p, "webhook")
    /\ PassedGate(p)
    /\ procs[p].req.body.json_ctype
    /\ procs[p].req.body.text = "json"
    /\ procs[p].req.body.doc.t # "falsy"

HasCommits(doc) == doc.commits
HasPull(doc) == doc.pull_request.t # "absent"

\* C3: an authenticated non-empty payload is classified in a fixed order: with
\* a commits field its record is a push, also when pull_request is present;
\* else with a pull_request field its record is a pull_request; else the
\* answer is 400 "Unsupported event" and nothing is inserted.
C3_ClassifiedInOrder ==
    \A p \in OneWorker :
      HasPayload(p) =>
        LET doc == procs[p].req.body.doc IN
        /\ (HasCommits(doc) /\ procs[p].ins = 1) => procs[p].event.type = "push"
        /\ (~HasCommits(doc) /\ HasPull(doc) /\ procs[p].ins = 1)
              => procs[p].event.type = "pull_request"
        /\ (~HasCommits(doc) /\ ~HasPull(doc))
              => procs[p].resp = UnsupportedEvent /\ procs[p].ins = 0

\* C3: a payload with both fields has been stored as a push
C3_BothStoredAsPush ==
    \E p \in OneWorker :
      /\ HasPayload(p)
      /\ HasCommits(procs[p].req.body.doc) /\ HasPull(procs[p].req.body.doc)
      /\ procs[p].ins = 1
      /\ procs[p].event.type = "push"

\* a classified payload that lacks a field central to the event's identity
LacksIdentity(doc) ==
    \/ /\ HasCommits(doc)
       /\ \/ ~(doc.pusher.t = "dict" /\ NonEmpty(doc.pusher.v))
          \/ ~(doc.head_commit.t = "dict" /\ NonEmpty(doc.head_commit.id))
          \/ ~(doc.ref.t = "str" /\ doc.ref.s # <<>>)
    \/ /\ ~HasCommits(doc) /\ HasPull(doc)
       /\ LET pr == doc.pull_request IN
          \/ pr.t # "dict"
          \/ ~(pr.user.t = "dict" /\ NonEmpty(pr.user.v))
          \/ ~(pr.head.t = "dict" /\ NonEmpty(pr.head.v))
          \/ ~(pr.base.t = "dict" /\ NonEmpty(pr.base.v))
          \/ ~NonEmpty(pr.number)

IdentityStored(rec) ==
    /\ rec.type = "push"
          => NonEmpty(rec.author) /\ NonEmpty(rec.branch) /\ NonEmpty(rec.commit_id)
    /\ rec.type = "pull_request"
          => /\ NonEmpty(rec.author) /\ NonEmpty(rec.from_branch)
             /\ NonEmpty(rec.to_branch) /\ NonEmpty(rec.pr_number)

\* C4: a classified payload that lacks an identity field is answered with a
\* client error and stores nothing, so no stored record has an identity field
\* absent, null or empty.
C4_MalformedRejected ==
    /\ \A p \in OneWorker :
         (HasPayload(p) /\ procs[p].req.body.doc.t = "dict"
            /\ LacksIdentity(procs[p].req.body.doc))
         => procs[p].resp.status \in 400..499 /\ procs[p].ins = 0
    /\ \A i \in 1..Len(store) : IdentityStored(store[i])

\* C4: a pull request without its user has been handled
C4_PullWithoutUserHandled ==
    \E p \in OneWorker :
      /\ HasPayload(p)
      /\ procs[p].req.body.doc.pull_request.t = "dict"
      /\ procs[p].req.body.doc.pull_request.user = NoD1

\* the ceiling of total / limit, for limit > 0
CeilDiv(total, limit) == (total + limit - 1) \div limit

\* C5: for an effective limit in 1..100 the total_pages of GET /events is
\* ceil(totalCount / limit) (0 or 1 for no records): an exact multiple of the
\* limit yields no extra empty page.
C5_TotalPagesIsCeiling ==
    \A p \in OneWorker :
      (/\ Answered(p, "events")
       /\ procs[p].resp.status = 200
       /\ procs[p].limit \in 1..LimitCap)
      => IF procs[p].total = 0
         THEN procs[p].total_pages \in {0, 1}
         ELSE procs[p].total_pages = CeilDiv(procs[p].total, procs[p].limit)

\* C5: a count that is no multiple of the limit has been paged
C5_InexactCountPaged ==
    \E p \in OneWorker :
      /\ Answered(p, "events")
      /\ procs[p].resp.status = 200
      /\ procs[p].limit = 2
      /\ procs[p].total = 1
      /\ procs[p].total_pages = 1

\* C6: whatever limit and page are asked for, the effective limit is in
\* 1..100 (50 when missing or invalid), the effective page is >= 1 (1 when
\* missing), skip = (page-1)*limit >= 0 and the answer is a page, not an error.
C6_ArgumentsClamped ==
    \A p \in OneWorker :
      (Answered(p, "events") /\ procs[p].exc # "StoreUnavailable")
      => /\ procs[p].resp.status = 200
         /\ procs[p].limit \in 1..LimitCap
         /\ (procs[p].limArg.t # "int" \/ procs[p].limArg.n < 1)
               => procs[p].limit = DefaultLimit
         /\ procs[p].page >= 1
         /\ procs[p].pageArg.t = "absent" => procs[p].page = DefaultPage
         /\ procs[p].skip = (procs[p].page - 1) * procs[p].limit
         /\ procs[p].skip >= 0

\* C6: a limit above the cap and a page beyond the last have given an empty page
C6_EmptyPageServed ==
    \E p \in OneWorker :
      /\ Answered(p, "events")
      /\ procs[p].resp.status = 200
      /\ procs[p].limArg = IntArg(101) /\ procs[p].limit = LimitCap
      /\ procs[p].pageArg = IntArg(2)
      /\ procs[p].result = <<>>
      /\ Len(store) > 0

PushOnly == {"branch", "commit_id", "commit_message"}
PullOnly == {"action", "from_branch", "to_branch", "pr_number", "pr_state"}

\* C7: every stored record has type push or pull_request, repository and
\* timestamp populated, and only the fields of its own type.
C7_RecordsWellFormed ==
    \A i \in 1..Len(store) :
      LET rec == store[i] IN
      /\ rec.type \in {"push", "pull_request"}
      /\ Populated(rec.repository)
      /\ rec.timestamp >= 0
      /\ rec.type = "push" => \A f \in PullOnly : rec[f] = Absent
      /\ rec.type = "pull_request" => \A f \in PushOnly : rec[f] = Absent

\* C7: a push and a pull request are both stored
C7_BothTypesStored ==
    /\ \E i \in 1..Len(store) : store[i].type = "push"
    /\ \E i \in 1..Len(store) : store[i].type = "pull_request"

\* the page is by descending timestamp, the newest insert first among equals
TieBrokenByInsertion(page) ==
    \A i, j \in 1..Len(page) :
      i < j => \/ page[i].timestamp > page[j].timestamp
               \/ /\ page[i].timestamp = page[j].timestamp
                  /\ page[i]._id[2] > page[j]._id[2]

\* C8: two GET /events with the same limit and page and no write between them
\* return the same records in the same order, records of equal timestamp
\* included: ties are broken by insertion order, the oldest last.
C8_ReadsRepeatable ==
    /\ \A p, q \in Workers :
         (/\ Answered(p, "events") /\ Answered(q, "events")
          /\ procs[p].resp.status = 200 /\ procs[q].resp.status = 200
          /\ procs[p].limit = procs[q].limit /\ procs[p].page = procs[q].page
          /\ procs[p].snap = procs[q].snap)
         => procs[p].result = procs[q].result
    /\ \A p \in Workers :
         (Answered(p, "events") /\ procs[p].resp.status = 200)
         => TieBrokenByInsertion(procs[p].result)

\* C8: two reads of the same store, which holds two records of one timestamp
C8_TwoReadsOfTies ==
    /\ Len(store) = 2
    /\ store[1].timestamp = store[2].timestamp
    /\ \A p \in Workers :
         /\ Answered(p, "events")
         /\ procs[p].snap = 2
         /\ Len(procs[p].result) = 2

\* the ids the store has handed out are those of its records, in order
IdsInOrder == \A i \in 1..Len(store) : store[i]._id = OidOf(i)

C9_State ==
    /\ \A p \in Workers :
         /\ procs[p].ins \in {0, 1}
         /\ procs[p].ins = 1 => procs[p].kind = "webhook"
         /\ Answered(p, "webhook") =>
              /\ procs[p].ins = 1
                    <=> (procs[p].resp.status = 200 /\ procs[p].resp.event_id # NoId)
              /\ procs[p].ins = 1 =>
                    \E i \in 1..Len(store) :
                       /\ store[i] = procs[p].event
                       /\ procs[p].resp.event_id = StrId(store[i]._id)
    /\ Len(store) = nextId - 1
    /\ IdsInOrder

C9_Step ==
    /\ Len(store') \in {Len(store), Len(store) + 1}
    /\ SubSeq(store', 1, Len(store)) = store
    /\ Len(store') = Len(store) + 1 =>
          \E p \in Workers :
             /\ procs[p].pc = "insert" /\ procs[p].ins = 0
             /\ procs'[p].ins = 1
             /\ \A q \in Workers \ {p} : procs'[q] = procs[q]

\* C9: under any interleaving of webhook, events and health requests each
\* webhook request inserts at most one record, and exactly one if and only if
\* it is answered 200 with an event_id; a stored record is never changed or
\* removed (by a read or a dropped connection either), so the store only grows
\* and holds as many records as there were completed inserts.
C9_InsertOnceAppendOnly == [](C9_State) /\ [][C9_Step]_vars

\* C9: a webhook whose client went away has stored its record and computed its
\* 200, while the other worker has read the record back
C9_DroppedButStored ==
    \E p, q \in Workers :
      /\ p # q
      /\ Answered(p, "webhook") /\ procs[p].closed /\ procs[p].ins = 1
      /\ procs[p].resp.status = 200
      /\ Answered(q, "events") /\ Len(procs[q].result) = 2

\* the body did not parse: it is empty or no JSON
Unparseable(body) == body.text \in {"empty", "garbage"}

\* C10: a request that passed the gate and whose body is empty or no JSON is
\* answered 400 "Invalid payload", not 500, and stores nothing.
C10_UnparseableIsInvalidPayload ==
    \A p \in OneWorker :
      (Answered(p, "webhook") /\ PassedGate(p) /\ Unparseable(procs[p].req.body))
      => procs[p].resp = InvalidPayload /\ procs[p].ins = 0

\* C10: the empty JSON object has been answered 400 "Invalid payload"
C10_EmptyObjectInvalid ==
    \E p \in OneWorker :
      /\ Answered(p, "webhook") /\ PassedGate(p)
      /\ procs[p].req.body.doc.t = "falsy" /\ procs[p].req.body.text = "json"
      /\ procs[p].resp = InvalidPayload
====
